---- MODULE Spec2Model ----
(***************************************************************************)
(* A model of the text adventure engine of src/engine.py: the InputParser  *)
(* (make_action_key), the construction of the scenes from an adventure     *)
(* file (Game._load_game_data and the pyyaml constructors), and the turn   *)
(* loop of Game (start, play, _match_action, _match_outcome,               *)
(* _process_outcome, _update_states) with the requirement checks and the   *)
(* mutators of _Requirement.make_check_fnc and _Mutator.make_mutator_func. *)
(*                                                                         *)
(* A text is a sequence of symbols.  The symbol " " is the space           *)
(* character; every other symbol stands for a run of characters without a  *)
(* space ("go", "north", "_arrive").  A word is a text without a space,    *)
(* so <<"go">> is the word go and <<>> is the empty string ''.             *)
(***************************************************************************)
EXTENDS Integers, Sequences, FiniteSets, TLC

(***************************************************************************)
(* Bounds of the model.                                                    *)
(***************************************************************************)
\* longest text given to make_action_key in SpecKey
MaxLen == 5
\* number of commands read from the player in one game
MaxReads == 2
\* depth of nested play() calls at which the interpreter gives up
\* (RecursionError); CPython's limit is 1000 frames
MaxDepth == 3
\* number of calls of the Shell in SpecShell
MaxCalls == 3

VARIABLES
  stop_words,           \* InputParser._stop_words: a set of words
  synonyms,             \* InputParser._synonyms: a function word -> word
  content,              \* the adventure file: [metadata, scenes]
  scenes,               \* Game.scenes: scene key -> [key, actions]
  current_scene,        \* Player.current_scene (the key of the scene object)
  inventory,            \* Player.inventory
  states,               \* Player.states
  visited_scene_names,  \* Player.visited_scene_names
  in_progress,          \* Game._in_progress
  pc,                   \* where the program is
  stack,                \* the _process_outcome calls in progress, innermost last
  text_input,           \* the text last given to make_action_key
  input_action_key,     \* play(): input_action_key
  out,                  \* what the shell was asked to do since the last command
  reads,                \* number of calls of Shell.get_player_input
  OS_NAME,              \* engine.OS_NAME, set from os.name at import
  terminal              \* what SpecShell's Shell did: OS commands, lines, keys

vars == <<stop_words, synonyms, content, scenes, current_scene, inventory, states,
          visited_scene_names, in_progress, pc, stack, text_input,
          input_action_key, out, reads, OS_NAME, terminal>>

(***************************************************************************)
(* Texts and words.                                                        *)
(***************************************************************************)
SPACE == " "

\* the word made of one symbol
W(s) == <<s>>

\* the empty string ''
EMPTY == <<>>

\* words joined by single spaces
RECURSIVE Join(_)
Join(ws) ==
  IF ws = <<>> THEN <<>>
  ELSE IF Len(ws) = 1 THEN ws[1]
  ELSE ws[1] \o <<SPACE>> \o Join(Tail(ws))

Range(f) == { f[i] : i \in DOMAIN f }

(***************************************************************************)
(* InputParser.make_action_key                                             *)
(***************************************************************************)
\* str.split(' '): cut at every single space; two spaces in a row, a leading
\* or a trailing space give the empty string
RECURSIVE split(_)
split(text) ==
  IF text = <<>> THEN << EMPTY >>
  ELSE LET rest == split(Tail(text)) IN
       IF Head(text) = SPACE
       THEN << EMPTY >> \o rest
       ELSE << <<Head(text)>> \o Head(rest) >> \o Tail(rest)

\* [w for w in text_input.split(' ') if w not in self._stop_words]
important_words(text, sw) == SelectSeq(split(text), LAMBDA w : w \notin sw)

\* self._synonyms[w] if w in self._synonyms else w
translate(w, syn) == IF w \in DOMAIN syn THEN syn[w] ELSE w

\* mutant: the synonyms are not translated
make_action_key_no_synonyms(text, sw, syn) ==
  Range(important_words(text, sw))

make_action_key(text, sw, syn) ==
  { translate(w, syn) : w \in Range(important_words(text, sw)) }

(***************************************************************************)
(* The adventure file.  A requirement and a mutator are a type tag and a   *)
(* target, an outcome has a text, requirements and mutators, an action a   *)
(* key text and outcomes, a scene a key and a list of actions.             *)
(***************************************************************************)
Req(type, target) == [type |-> type, target |-> target]
Mut(type, target) == [type |-> type, target |-> target]
Outcome(text, reqs, muts) == [text |-> text, requirements |-> reqs, mutators |-> muts]
Action(keytext, outcomes) == [key |-> keytext, outcomes |-> outcomes]
Scene(key, actions) == [key |-> key, actions |-> actions]
Metadata(title, scene, action) ==
  [title |-> title, first_scene |-> scene, first_action |-> action]

\* frozenset(['_arrive']) and frozenset(['_no_match'])
ARRIVE == { W("_arrive") }
NO_MATCH == { W("_no_match") }

\* the value None
None == "None"

(***************************************************************************)
(* _Requirement.make_check_fnc                                             *)
(***************************************************************************)
RequirementTypes ==
  {"has_item", "not_has_item", "has_state", "not_has_state",
   "has_visited", "not_has_visited"}

\* the else branch: raise ValueError
make_check_fnc_raises(type) == type \notin RequirementTypes

\* mutant: not_has_state looks in the inventory
check_func_state_in_inventory(r, player) ==
  CASE r.type = "has_item"        -> r.target \in player.inventory
    [] r.type = "not_has_item"    -> r.target \notin player.inventory
    [] r.type = "has_state"       -> r.target \in player.states
    [] r.type = "not_has_state"   -> r.target \notin player.inventory
    [] r.type = "has_visited"     -> r.target \in player.visited_scene_names
    [] r.type = "not_has_visited" -> r.target \notin player.visited_scene_names

\* the check function made for (type, target), applied to a player
check_func(r, player) ==
  CASE r.type = "has_item"        -> r.target \in player.inventory
    [] r.type = "not_has_item"    -> r.target \notin player.inventory
    [] r.type = "has_state"       -> r.target \in player.states
    [] r.type = "not_has_state"   -> r.target \notin player.states
    [] r.type = "has_visited"     -> r.target \in player.visited_scene_names
    [] r.type = "not_has_visited" -> r.target \notin player.visited_scene_names

\* _Outcome.check_requirements: all(...) over the requirements
check_requirements(outcome, player) ==
  \A i \in DOMAIN outcome.requirements : check_func(outcome.requirements[i], player)

(***************************************************************************)
(* _Mutator.make_mutator_func.  The game state a mutator works on is the   *)
(* record g of the player's fields and Game._in_progress; scns is          *)
(* Game.scenes.                                                            *)
(***************************************************************************)
MutatorTypes ==
  {"player_move_to", "player_arrive", "add_item", "remove_item",
   "add_state", "remove_state", "game_end"}

\* mutant: every mutator type is accepted when the file is loaded
make_mutator_func_raises_never(type) == FALSE

\* the else branch: raise ValueError
make_mutator_func_raises(type) == type \notin MutatorTypes

\* mutant: an element that is already there cannot be added again
mutator_func_raises_duplicate(m, g, scns) ==
  CASE m.type = "player_move_to" -> m.target \notin DOMAIN scns
    [] m.type = "player_arrive" ->
         m.target \notin DOMAIN scns \/ scns[m.target].key \in g.visited_scene_names
    [] m.type = "add_item"     -> m.target \in g.inventory
    [] m.type = "add_state"    -> m.target \in g.states
    [] m.type = "remove_item"  -> m.target \notin g.inventory
    [] m.type = "remove_state" -> m.target \notin g.states
    [] OTHER -> FALSE

\* game.scenes[target] and set.remove(target) raise KeyError on a missing key
mutator_func_raises(m, g, scns) ==
  CASE m.type \in {"player_move_to", "player_arrive"} -> m.target \notin DOMAIN scns
    [] m.type = "remove_item"  -> m.target \notin g.inventory
    [] m.type = "remove_state" -> m.target \notin g.states
    [] OTHER -> FALSE

\* mutant: player_move_to also marks the scene as visited
mutator_func_move_visits(m, g, scns) ==
  CASE m.type = "player_move_to" ->
         [g EXCEPT !.current_scene = scns[m.target].key,
                   !.visited_scene_names = @ \cup {scns[m.target].key}]
    [] m.type = "player_arrive"  ->
         [g EXCEPT !.visited_scene_names = @ \cup {scns[m.target].key}]
    [] m.type = "add_item"       -> [g EXCEPT !.inventory = @ \cup {m.target}]
    [] m.type = "remove_item"    -> [g EXCEPT !.inventory = @ \ {m.target}]
    [] m.type = "add_state"      -> [g EXCEPT !.states = @ \cup {m.target}]
    [] m.type = "remove_state"   -> [g EXCEPT !.states = @ \ {m.target}]
    [] m.type = "game_end"       -> [g EXCEPT !.in_progress = FALSE]

\* mutant: game_end flips the flag
mutator_func_flip(m, g, scns) ==
  CASE m.type = "player_move_to" -> [g EXCEPT !.current_scene = scns[m.target].key]
    [] m.type = "player_arrive"  ->
         [g EXCEPT !.visited_scene_names = @ \cup {scns[m.target].key}]
    [] m.type = "add_item"       -> [g EXCEPT !.inventory = @ \cup {m.target}]
    [] m.type = "remove_item"    -> [g EXCEPT !.inventory = @ \ {m.target}]
    [] m.type = "add_state"      -> [g EXCEPT !.states = @ \cup {m.target}]
    [] m.type = "remove_state"   -> [g EXCEPT !.states = @ \ {m.target}]
    [] m.type = "game_end"       -> [g EXCEPT !.in_progress = ~@]

\* mutant: once the game has ended the mutators do nothing
mutator_func_stopped(m, g, scns) ==
  IF ~g.in_progress THEN g
  ELSE CASE m.type = "player_move_to" -> [g EXCEPT !.current_scene = scns[m.target].key]
         [] m.type = "player_arrive"  ->
              [g EXCEPT !.visited_scene_names = @ \cup {scns[m.target].key}]
         [] m.type = "add_item"       -> [g EXCEPT !.inventory = @ \cup {m.target}]
         [] m.type = "remove_item"    -> [g EXCEPT !.inventory = @ \ {m.target}]
         [] m.type = "add_state"      -> [g EXCEPT !.states = @ \cup {m.target}]
         [] m.type = "remove_state"   -> [g EXCEPT !.states = @ \ {m.target}]
         [] m.type = "game_end"       -> [g EXCEPT !.in_progress = FALSE]

\* mutant: player_arrive marks the scene the player is in
mutator_func_arrive_marks_current(m, g, scns) ==
  CASE m.type = "player_move_to" -> [g EXCEPT !.current_scene = scns[m.target].key]
    [] m.type = "player_arrive"  ->
         [g EXCEPT !.visited_scene_names = @ \cup {g.current_scene}]
    [] m.type = "add_item"       -> [g EXCEPT !.inventory = @ \cup {m.target}]
    [] m.type = "remove_item"    -> [g EXCEPT !.inventory = @ \ {m.target}]
    [] m.type = "add_state"      -> [g EXCEPT !.states = @ \cup {m.target}]
    [] m.type = "remove_state"   -> [g EXCEPT !.states = @ \ {m.target}]
    [] m.type = "game_end"       -> [g EXCEPT !.in_progress = FALSE]

\* mutant: game_end takes the player out of the scenes
mutator_func_end_leaves(m, g, scns) ==
  CASE m.type = "player_move_to" -> [g EXCEPT !.current_scene = scns[m.target].key]
    [] m.type = "player_arrive"  ->
         [g EXCEPT !.visited_scene_names = @ \cup {scns[m.target].key}]
    [] m.type = "add_item"       -> [g EXCEPT !.inventory = @ \cup {m.target}]
    [] m.type = "remove_item"    -> [g EXCEPT !.inventory = @ \ {m.target}]
    [] m.type = "add_state"      -> [g EXCEPT !.states = @ \cup {m.target}]
    [] m.type = "remove_state"   -> [g EXCEPT !.states = @ \ {m.target}]
    [] m.type = "game_end"       ->
         [g EXCEPT !.in_progress = FALSE, !.current_scene = None]

\* the mutator function made for (type, target), applied to the game
mutator_func(m, g, scns) ==
  CASE m.type = "player_move_to" -> [g EXCEPT !.current_scene = scns[m.target].key]
    [] m.type = "player_arrive"  ->
         [g EXCEPT !.visited_scene_names = @ \cup {scns[m.target].key}]
    [] m.type = "add_item"       -> [g EXCEPT !.inventory = @ \cup {m.target}]
    [] m.type = "remove_item"    -> [g EXCEPT !.inventory = @ \ {m.target}]
    [] m.type = "add_state"      -> [g EXCEPT !.states = @ \cup {m.target}]
    [] m.type = "remove_state"   -> [g EXCEPT !.states = @ \ {m.target}]
    [] m.type = "game_end"       -> [g EXCEPT !.in_progress = FALSE]

(***************************************************************************)
(* Construction of the scenes: Game._load_game_data and the pyyaml         *)
(* constructors of _Requirement, _Mutator, _Outcome, _Action and _Scene.   *)
(***************************************************************************)
\* _Action.make_pyyaml_constructor: the key text goes through make_action_key
action_constructor(a, sw, syn) ==
  [key |-> make_action_key(a.key, sw, syn), outcomes |-> a.outcomes]

\* the constructed actions of a scene record, in authored order
actions_list(s, sw, syn) ==
  [i \in DOMAIN s.actions |-> action_constructor(s.actions[i], sw, syn)]

\* mutant: duplicate keys are not detected
check_duplicate_action_keys_never(al) == FALSE

\* _Scene.check_duplicate_action_keys: TRUE when it raises ValueError
check_duplicate_action_keys(al) ==
  Cardinality({ al[i].key : i \in DOMAIN al }) # Len(al)

\* {action.key: action for action in actions_list}: a later action replaces
\* an earlier one with the same key
action_dict(al) ==
  [k \in { al[i].key : i \in DOMAIN al } |->
     al[CHOOSE i \in DOMAIN al :
          al[i].key = k /\ \A j \in DOMAIN al : al[j].key = k => j <= i]]

\* _Scene.__init__
scene_constructor(s, sw, syn) ==
  [key |-> s.key, actions |-> action_dict(actions_list(s, sw, syn))]

\* a requirement or mutator constructor of the document raises ValueError
tag_error(doc) ==
  \E i \in DOMAIN doc.scenes : \E j \in DOMAIN doc.scenes[i].actions :
    \E k \in DOMAIN doc.scenes[i].actions[j].outcomes :
      LET o == doc.scenes[i].actions[j].outcomes[k] IN
        \/ \E n \in DOMAIN o.requirements : make_check_fnc_raises(o.requirements[n].type)
        \/ \E n \in DOMAIN o.mutators : make_mutator_func_raises(o.mutators[n].type)

\* a scene constructor of the document raises ValueError
duplicate_error(doc, sw, syn) ==
  \E i \in DOMAIN doc.scenes :
    check_duplicate_action_keys(actions_list(doc.scenes[i], sw, syn))

\* yaml.safe_load_all raises
load_raises(doc, sw, syn) == tag_error(doc) \/ duplicate_error(doc, sw, syn)

\* {scene.key: scene for scene in scenes}
scene_dict(doc, sw, syn) ==
  [k \in { doc.scenes[i].key : i \in DOMAIN doc.scenes } |->
     scene_constructor(
       doc.scenes[CHOOSE i \in DOMAIN doc.scenes :
          doc.scenes[i].key = k
          /\ \A j \in DOMAIN doc.scenes : doc.scenes[j].key = k => j <= i],
       sw, syn)]

\* mutant: the first turn always uses the key {_arrive}
first_action_key_arrive(doc) == ARRIVE

\* Game._pyyaml_meta_data_constructor: frozenset([data['first_action']])
first_action_key(doc) == { doc.metadata.first_action }

(***************************************************************************)
(* Game: the turn loop.                                                    *)
(***************************************************************************)
\* the player, as the requirement checks read it
Player ==
  [current_scene |-> current_scene, inventory |-> inventory, states |-> states,
   visited_scene_names |-> visited_scene_names]

\* the game, as the mutators read and write it
GameState ==
  [current_scene |-> current_scene, inventory |-> inventory, states |-> states,
   visited_scene_names |-> visited_scene_names, in_progress |-> in_progress]

\* what the shell is asked to do
ShellClear == [op |-> "clear", paragraphs |-> <<>>, alignment |-> ""]
ShellPause == [op |-> "pause", paragraphs |-> <<>>, alignment |-> ""]
ShellPrint(paragraphs, alignment) ==
  [op |-> "print", paragraphs |-> paragraphs, alignment |-> alignment]
CANNOT == ShellPrint(<<"You cannot do that now.">>, "left")

\* mutant: the default action is preferred to the exact match
_match_action_default_first(scene, key) ==
  IF NO_MATCH \in DOMAIN scene.actions THEN << scene.actions[NO_MATCH] >>
  ELSE IF key \in DOMAIN scene.actions THEN << scene.actions[key] >>
  ELSE << >>

\* mutant: no fallback to _no_match for the key {_arrive}
_match_action_arrive_required(scene, key) ==
  IF key \in DOMAIN scene.actions THEN << scene.actions[key] >>
  ELSE IF key # ARRIVE /\ NO_MATCH \in DOMAIN scene.actions
       THEN << scene.actions[NO_MATCH] >>
  ELSE << >>

\* Game._match_action: get(key) or get({_no_match}); << >> is None
_match_action(scene, key) ==
  IF key \in DOMAIN scene.actions THEN << scene.actions[key] >>
  ELSE IF NO_MATCH \in DOMAIN scene.actions THEN << scene.actions[NO_MATCH] >>
  ELSE << >>

\* mutant: the last matching outcome is returned
_match_outcome_last(action, player) ==
  LET matched_outcomes ==
        SelectSeq(action.outcomes, LAMBDA o : check_requirements(o, player))
  IN IF matched_outcomes # << >>
     THEN << matched_outcomes[Len(matched_outcomes)] >> ELSE << >>

\* mutant: with no matching outcome the first outcome is returned
_match_outcome_or_first(action, player) ==
  LET matched_outcomes ==
        SelectSeq(action.outcomes, LAMBDA o : check_requirements(o, player))
  IN IF matched_outcomes # << >> THEN << matched_outcomes[1] >>
     ELSE IF action.outcomes # << >> THEN << action.outcomes[1] >> ELSE << >>

\* Game._match_outcome; << >> is None
_match_outcome(action, player) ==
  LET matched_outcomes ==
        SelectSeq(action.outcomes, LAMBDA o : check_requirements(o, player))
  IN IF matched_outcomes # << >> THEN << matched_outcomes[1] >> ELSE << >>

\* mutant: the loop of start() does not look at the flag
while_in_progress_forever(g) == TRUE

\* Game.start: the condition of the while loop
while_in_progress(g) == g.in_progress

\* mutant: the scene is never taken to have changed
scene_changed_never(player_original_scene, scene) == FALSE

\* mutant: every outcome is followed by an arrival turn
scene_changed_always(player_original_scene, scene) == TRUE

\* Game._process_outcome: player_original_scene != self.player.current_scene
scene_changed(player_original_scene, scene) == player_original_scene # scene

\* mutant: the mutators are applied last to first
state_mutator_reversed(mutators, i) == mutators[Len(mutators) + 1 - i]

\* Game._update_states: for state_mutator in mutators, the i-th round
state_mutator(mutators, i) == mutators[i]

\* mutant: the outcome is resolved again against the player as it is now
processed_outcome_rematched(frame, player) ==
  LET again == _match_outcome(frame.action, player)
  IN IF again # << >> THEN again[1] ELSE frame.outcome

\* Game._process_outcome: the outcome it was called with
processed_outcome(frame, player) == frame.outcome

\* mutant: the text is printed before the screen is cleared
changed_scene_output_text_first(text) == << ShellPrint(text, "left"), ShellClear >>

\* mutant: the screen is not cleared
changed_scene_output_no_clear(text) == << ShellPrint(text, "left") >>

\* Game._process_outcome, the scene has changed: clear(), then print(text)
changed_scene_output(text) == << ShellClear, ShellPrint(text, "left") >>

\* the innermost _process_outcome call
Top == stack[Len(stack)]

\* Game.__init__: the scenes are loaded, or the constructors raise ValueError
GameInit ==
  /\ pc = "new"
  /\ IF load_raises(content, stop_words, synonyms)
     THEN /\ pc' = "load_error"
          /\ UNCHANGED <<scenes, in_progress>>
     ELSE /\ scenes' = scene_dict(content, stop_words, synonyms)
          /\ in_progress' = TRUE
          /\ pc' = "ready"
  /\ UNCHANGED <<OS_NAME, terminal, stop_words, synonyms, content, current_scene, inventory, states,
                 visited_scene_names, stack, text_input, input_action_key, out,
                 reads>>

\* Game.start, up to the first call of play()
Start ==
  /\ pc = "ready"
  /\ out' = << ShellClear,
               ShellPrint(<<"Welcome to", content.metadata.title>>, "centre"),
               ShellPrint(<<"To play the game, enter simple commands">>, "left"),
               ShellPause, ShellClear >>
  /\ IF content.metadata.first_scene \in DOMAIN scenes
     THEN /\ current_scene' = scenes[content.metadata.first_scene].key
          /\ input_action_key' = first_action_key(content)
          /\ pc' = "play"
     ELSE /\ pc' = "crashed"       \* KeyError
          /\ UNCHANGED <<current_scene, input_action_key>>
  /\ UNCHANGED <<OS_NAME, terminal, stop_words, synonyms, content, scenes, inventory, states,
                 visited_scene_names, in_progress, stack, text_input, reads>>

\* the commands the player types
Commands ==
  { <<"go", SPACE, "north">>, <<"the", SPACE, "north", SPACE, "go">>,
    <<"jump">>, <<"the">> }

\* Game.start: the loop goes on; play() reads a command and makes its key
GetPlayerInput ==
  /\ pc = "loop"
  /\ while_in_progress(GameState)
  /\ reads < MaxReads
  /\ \E t \in Commands :
       /\ text_input' = t
       /\ input_action_key' = make_action_key(t, stop_words, synonyms)
  /\ reads' = reads + 1
  /\ out' = << >>
  /\ pc' = "play"
  /\ UNCHANGED <<OS_NAME, terminal, stop_words, synonyms, content, scenes, current_scene, inventory,
                 states, visited_scene_names, in_progress, stack>>

\* Game.start: the loop ends and start() returns
Stop ==
  /\ pc = "loop"
  /\ ~while_in_progress(GameState)
  /\ pc' = "done"
  /\ UNCHANGED <<OS_NAME, terminal, stop_words, synonyms, content, scenes, current_scene, inventory,
                 states, visited_scene_names, in_progress, stack, text_input,
                 input_action_key, out, reads>>

\* mutant: _no_match is also tried when no outcome of the action is satisfied
match_action_and_outcome_fallback(scene, key, player) ==
  LET action == _match_action(scene, key)
      outcome == IF action = << >> THEN << >> ELSE _match_outcome(action[1], player)
      default == _match_action(scene, NO_MATCH)
      other == IF default = << >> THEN << >> ELSE _match_outcome(default[1], player)
  IN IF outcome # << >> THEN << [action |-> action[1], outcome |-> outcome[1]] >>
     ELSE IF other # << >> THEN << [action |-> default[1], outcome |-> other[1]] >>
     ELSE << >>

\* Game.play: the action matched and its outcome, if there are both
match_action_and_outcome(scene, key, player) ==
  LET action == _match_action(scene, key)
      outcome == IF action = << >> THEN << >> ELSE _match_outcome(action[1], player)
  IN IF outcome # << >> THEN << [action |-> action[1], outcome |-> outcome[1]] >>
     ELSE << >>

\* mutant: play() marks the scene as visited
Play_marks_visited ==
  /\ pc = "play"
  /\ LET found == match_action_and_outcome(scenes[current_scene], input_action_key,
                                           Player)
     IN IF found # << >>
        THEN /\ stack' = Append(stack,
                   [action |-> found[1].action, outcome |-> found[1].outcome,
                    player_original_scene |-> current_scene, i |-> 1])
             /\ pc' = "mutate"
             /\ out' = out
        ELSE /\ out' = Append(out, CANNOT)
             /\ pc' = "return"
             /\ stack' = stack
  /\ visited_scene_names' = visited_scene_names \cup { current_scene }
  /\ UNCHANGED <<OS_NAME, terminal, stop_words, synonyms, content, scenes, current_scene, inventory,
                 states, in_progress, text_input, input_action_key, reads>>

\* mutant: play() takes any satisfied outcome of the action, not the first
Play_any_satisfied ==
  /\ pc = "play"
  /\ LET action == _match_action(scenes[current_scene], input_action_key)
     IN IF action # << >> /\ _match_outcome(action[1], Player) # << >>
        THEN /\ \E n \in DOMAIN action[1].outcomes :
                  /\ check_requirements(action[1].outcomes[n], Player)
                  /\ stack' = Append(stack,
                        [action |-> action[1], outcome |-> action[1].outcomes[n],
                         player_original_scene |-> current_scene, i |-> 1])
             /\ pc' = "mutate"
             /\ out' = out
        ELSE /\ out' = Append(out, CANNOT)
             /\ pc' = "return"
             /\ stack' = stack
  /\ UNCHANGED <<OS_NAME, terminal, stop_words, synonyms, content, scenes, current_scene, inventory,
                 states, visited_scene_names, in_progress, text_input,
                 input_action_key, reads>>

\* Game.play from the matching of the action to the call of _update_states
Play ==
  /\ pc = "play"
  /\ LET found == match_action_and_outcome(scenes[current_scene], input_action_key,
                                           Player)
     IN IF found # << >>
        THEN /\ stack' = Append(stack,
                   [action |-> found[1].action, outcome |-> found[1].outcome,
                    player_original_scene |-> current_scene, i |-> 1])
             /\ pc' = "mutate"
             /\ out' = out
        ELSE /\ out' = Append(out, CANNOT)
             /\ pc' = "return"
             /\ stack' = stack
  /\ UNCHANGED <<OS_NAME, terminal, stop_words, synonyms, content, scenes, current_scene, inventory,
                 states, visited_scene_names, in_progress, text_input,
                 input_action_key, reads>>

\* mutant: a mutator that raises puts the player back in the scene the
\* outcome began in
UpdateStates_rollback ==
  /\ pc = "mutate"
  /\ Top.i <= Len(processed_outcome(Top, Player).mutators)
  /\ LET m == state_mutator(processed_outcome(Top, Player).mutators, Top.i) IN
       IF mutator_func_raises(m, GameState, scenes)
       THEN /\ pc' = "crashed"
            /\ current_scene' = Top.player_original_scene
            /\ UNCHANGED <<inventory, states, visited_scene_names, in_progress, stack>>
       ELSE LET g == mutator_func(m, GameState, scenes) IN
            /\ current_scene' = g.current_scene
            /\ inventory' = g.inventory
            /\ states' = g.states
            /\ visited_scene_names' = g.visited_scene_names
            /\ in_progress' = g.in_progress
            /\ stack' = [stack EXCEPT ![Len(stack)].i = @ + 1]
            /\ pc' = "mutate"
  /\ UNCHANGED <<OS_NAME, terminal, stop_words, synonyms, content, scenes, text_input,
                 input_action_key, out, reads>>

\* Game._update_states: one round of the loop, one mutator applied
UpdateStates ==
  /\ pc = "mutate"
  /\ Top.i <= Len(processed_outcome(Top, Player).mutators)
  /\ LET m == state_mutator(processed_outcome(Top, Player).mutators, Top.i) IN
       IF mutator_func_raises(m, GameState, scenes)
       THEN /\ pc' = "crashed"     \* KeyError
            /\ UNCHANGED <<current_scene, inventory, states, visited_scene_names,
                           in_progress, stack>>
       ELSE LET g == mutator_func(m, GameState, scenes) IN
            /\ current_scene' = g.current_scene
            /\ inventory' = g.inventory
            /\ states' = g.states
            /\ visited_scene_names' = g.visited_scene_names
            /\ in_progress' = g.in_progress
            /\ stack' = [stack EXCEPT ![Len(stack)].i = @ + 1]
            /\ pc' = "mutate"
  /\ UNCHANGED <<OS_NAME, terminal, stop_words, synonyms, content, scenes, text_input,
                 input_action_key, out, reads>>

\* mutant: the arrival turn asks the player for a command
ProcessOutcome_reads ==
  /\ pc = "mutate"
  /\ Top.i > Len(processed_outcome(Top, Player).mutators)
  /\ IF scene_changed(Top.player_original_scene, current_scene)
     THEN /\ out' = out \o changed_scene_output(processed_outcome(Top, Player).text)
          /\ IF Len(stack) < MaxDepth
             THEN /\ \E t \in Commands :
                       /\ text_input' = t
                       /\ input_action_key' = make_action_key(t, stop_words, synonyms)
                  /\ reads' = reads + 1
                  /\ pc' = "play"
             ELSE /\ pc' = "crashed"
                  /\ UNCHANGED <<input_action_key, text_input, reads>>
          /\ stack' = stack
     ELSE /\ out' = Append(out, ShellPrint(processed_outcome(Top, Player).text, "left"))
          /\ stack' = SubSeq(stack, 1, Len(stack) - 1)
          /\ pc' = "return"
          /\ UNCHANGED <<input_action_key, text_input, reads>>
  /\ UNCHANGED <<OS_NAME, terminal, stop_words, synonyms, content, scenes, current_scene,
                 inventory, states, visited_scene_names, in_progress>>

\* Game._process_outcome after _update_states: the scene comparison, the
\* printing and the arrival turn
ProcessOutcome ==
  /\ pc = "mutate"
  /\ Top.i > Len(processed_outcome(Top, Player).mutators)
  /\ IF scene_changed(Top.player_original_scene, current_scene)
     THEN /\ out' = out \o changed_scene_output(processed_outcome(Top, Player).text)
          /\ IF Len(stack) < MaxDepth
             THEN /\ input_action_key' = ARRIVE
                  /\ pc' = "play"
             ELSE /\ pc' = "crashed"   \* RecursionError
                  /\ UNCHANGED input_action_key
          /\ stack' = stack
     ELSE /\ out' = Append(out, ShellPrint(processed_outcome(Top, Player).text, "left"))
          /\ stack' = SubSeq(stack, 1, Len(stack) - 1)
          /\ pc' = "return"
          /\ UNCHANGED input_action_key
  /\ UNCHANGED <<OS_NAME, terminal, stop_words, synonyms, content, scenes, current_scene, inventory,
                 states, visited_scene_names, in_progress, text_input, reads>>

\* play() returns: to the _process_outcome that called it for the arrival
\* turn, which returns in turn, or to the loop of start()
Return ==
  /\ pc = "return"
  /\ IF stack = << >>
     THEN pc' = "loop" /\ stack' = stack
     ELSE pc' = "return" /\ stack' = SubSeq(stack, 1, Len(stack) - 1)
  /\ UNCHANGED <<OS_NAME, terminal, stop_words, synonyms, content, scenes, current_scene, inventory,
                 states, visited_scene_names, in_progress, text_input,
                 input_action_key, out, reads>>

Next == GameInit \/ Start \/ GetPlayerInput \/ Stop \/ Play \/ UpdateStates \/ ProcessOutcome \/ Return

(***************************************************************************)
(* The adventure files of the model: two scenes, A and B (no scene C), one *)
(* item, one state.  Each family varies one part of a file.                *)
(***************************************************************************)
GO_NORTH == <<"go", SPACE, "north">>

\* sequences over S of length at most n
SeqsUpTo(S, n) == UNION { [1..k -> S] : k \in 0..n }

MutatorLib ==
  { Mut("player_move_to", "A"), Mut("player_move_to", "B"), Mut("player_move_to", "C"),
    Mut("player_arrive", "B"), Mut("add_item", "knife"), Mut("remove_item", "knife"),
    Mut("add_state", "lit"), Mut("remove_state", "lit"), Mut("game_end", None),
    Mut("teleport", "B") }

RequirementLib ==
  { Req("has_item", "knife"), Req("not_has_item", "knife"), Req("has_state", "lit"),
    Req("not_has_state", "lit"), Req("has_visited", "B"), Req("not_has_visited", "B"),
    Req("is_tall", "knife") }

RequirementLists ==
  SeqsUpTo(RequirementLib, 1)
    \cup { << Req("has_item", "knife"), Req("has_visited", "B") >>,
           << Req("has_item", "knife"), Req("not_has_item", "knife") >> }

ArriveAction(text, muts) == Action(<<"_arrive">>, << Outcome(<<text>>, << >>, muts) >>)

SceneB ==
  Scene("B", << ArriveAction("in B", << Mut("player_arrive", "B") >>),
                Action(GO_NORTH,
                       << Outcome(<<"back">>, << >>, << Mut("player_move_to", "A") >>) >>) >>)

File(sceneList) == [metadata |-> Metadata("Island", "A", <<"_arrive">>), scenes |-> sceneList]

\* the mutators of one outcome vary
MutatorFiles ==
  { File(<< Scene("A", << ArriveAction("in A", << >>),
                          Action(GO_NORTH, << Outcome(<<"done">>, << >>, ms) >>) >>),
            SceneB >>) : ms \in SeqsUpTo(MutatorLib, 2) }

\* the requirements of the two outcomes of one action vary
RequirementFiles ==
  { File(<< Scene("A", << ArriveAction("in A", << >>),
                          Action(GO_NORTH,
                                 << Outcome(<<"o1">>, r1, << Mut("add_item", "knife") >>),
                                    Outcome(<<"o2">>, r2, << Mut("add_state", "lit") >>) >>) >>),
            SceneB >>) : r1 \in RequirementLists, r2 \in RequirementLists }

\* the actions of scene A vary, and scene B has an _arrive action or not
ActionLib ==
  { ArriveAction("in A", << >>),
    Action(GO_NORTH, << Outcome(<<"north">>, << >>, << Mut("player_move_to", "B") >>) >>),
    Action(<<"north", SPACE, "the", SPACE, "go">>, << Outcome(<<"again">>, << >>, << >>) >>),
    Action(<<"_no_match">>, << Outcome(<<"what?">>, << >>, << >>) >>),
    Action(<<"jump">>, << >>),
    Action(<<"the">>, << Outcome(<<"nothing">>, << >>, << >>) >>) }

SceneBLib ==
  { SceneB,
    Scene("B", << Action(<<"_no_match">>, << Outcome(<<"lost">>, << >>, << >>) >>) >>),
    Scene("B", << >>) }

ActionFiles ==
  { File(<< Scene("A", as), b >>) : as \in SeqsUpTo(ActionLib, 3), b \in SceneBLib }

\* the mutators of the two arrival outcomes vary
ArrivalMutators ==
  { << >>, << Mut("player_move_to", "A") >>, << Mut("player_move_to", "B") >>,
    << Mut("game_end", None) >>, << Mut("player_arrive", "B") >> }

ArrivalFiles ==
  { File(<< Scene("A", << ArriveAction("in A", ma),
                          Action(GO_NORTH,
                                 << Outcome(<<"north">>, << >>,
                                            << Mut("player_move_to", "B") >>) >>) >>),
            Scene("B", << ArriveAction("in B", mb) >>) >>)
      : ma \in ArrivalMutators, mb \in ArrivalMutators }

\* the metadata vary
MetadataFiles ==
  { [metadata |-> Metadata("Island", s, a),
     scenes |-> << Scene("A", << ArriveAction("in A", << >>),
                                 Action(GO_NORTH, << Outcome(<<"north">>, << >>,
                                            << Mut("player_move_to", "B") >>) >>) >>),
                   SceneB >>]
      : s \in {"A", "B", "C"}, a \in { <<"_arrive">>, GO_NORTH, <<"north">> } }

\* scene A has a _no_match action beside an action whose one outcome has a
\* requirement
FallbackFiles ==
  { File(<< Scene("A", << ArriveAction("in A", << >>),
                          Action(GO_NORTH, << Outcome(<<"north">>, << r >>, << >>) >>),
                          Action(<<"_no_match">>,
                                 << Outcome(<<"what?">>, << >>, ms) >>) >>),
            SceneB >>)
      : r \in { Req("has_item", "knife"), Req("has_state", "lit") },
        ms \in { << >>, << Mut("add_state", "lit") >> } }

Files == MutatorFiles \cup RequirementFiles \cup ActionFiles \cup ArrivalFiles
           \cup MetadataFiles \cup FallbackFiles

(***************************************************************************)
(* The program when the InputParser and the Player are constructed and the *)
(* Game is about to be: there is no scene yet; in_progress, which          *)
(* Game.__init__ sets to True, is shown as TRUE from the start.            *)
(***************************************************************************)
Init ==
  /\ stop_words = { W("the") }
  /\ synonyms = (W("walk") :> W("go"))
  /\ content \in Files
  /\ scenes = << >>
  /\ pc = "new"
  /\ current_scene = None
  /\ inventory \in SUBSET {"knife"}
  /\ states = { }
  /\ visited_scene_names \in SUBSET {"B"}
  /\ in_progress = TRUE
  /\ stack = << >>
  /\ text_input = << >>
  /\ input_action_key = { }
  /\ out = << >>
  /\ reads = 0
  /\ OS_NAME = "posix"
  /\ terminal = << >>

Spec == Init /\ [][Next]_vars

(***************************************************************************)
(* make_action_key on its own: an InputParser and a text are drawn, and    *)
(* the one step makes the key of the text.                                 *)
(***************************************************************************)
Symbols == {"go", "north", "the", "walk", SPACE}

Texts == SeqsUpTo(Symbols, MaxLen)

StopWordLists ==
  { { }, { W("the") }, { W("the"), W("go") }, { W("the"), W("walk") },
    { W("the"), EMPTY } }

SynonymDicts ==
  { << >>, (W("walk") :> W("go")), (W("walk") :> W("go")) @@ (W("go") :> W("north")) }

InitKey ==
  /\ stop_words \in StopWordLists
  /\ synonyms \in SynonymDicts
  /\ text_input \in Texts
  /\ pc = "key_input"
  /\ content = File(<< >>)
  /\ scenes = << >>
  /\ current_scene = None
  /\ inventory = { }
  /\ states = { }
  /\ visited_scene_names = { }
  /\ in_progress = TRUE
  /\ stack = << >>
  /\ input_action_key = { }
  /\ out = << >>
  /\ reads = 0
  /\ OS_NAME = "posix"
  /\ terminal = << >>

\* InputParser.make_action_key(text_input)
MakeActionKey ==
  /\ pc = "key_input"
  /\ input_action_key' = make_action_key(text_input, stop_words, synonyms)
  /\ pc' = "key_done"
  /\ UNCHANGED <<OS_NAME, terminal, stop_words, synonyms, content, scenes, current_scene, inventory,
                 states, visited_scene_names, in_progress, stack, text_input, out,
                 reads>>

NextKey == MakeActionKey

SpecKey == InitKey /\ [][NextKey]_vars

(***************************************************************************)
(* The Shell on its own: what clear(), print() and pause() do to the       *)
(* terminal, for each name os.name can have.  out logs the calls made,     *)
(* terminal what they did: OS commands run, lines written to standard      *)
(* output (the text of a line is kept with its layout; wrapping is not     *)
(* modelled) and keys waited for.                                          *)
(***************************************************************************)
OsNames == {"nt", "posix", "java", "?"}

system(command) == [kind |-> "system", text |-> command, layout |-> ""]
stdout(text, layout) == [kind |-> "stdout", text |-> text, layout |-> layout]
getch == [kind |-> "getch", text |-> "", layout |-> ""]

\* mutant: 'clear' on posix only
clear_command_posix(os_name) == IF os_name = "posix" THEN "clear" ELSE "cls"

\* Shell.clear: the command given to os.system
clear_command(os_name) == IF os_name = "nt" THEN "cls" ELSE "clear"

\* Shell.print: the lines of one paragraph and the empty line after it
RECURSIVE print_lines(_, _)
print_lines(paragraphs, alignment) ==
  IF paragraphs = << >> THEN << >>
  ELSE (IF alignment \in {"left", "centre"}
        THEN << stdout(Head(paragraphs), alignment) >> ELSE << >>)
         \o << stdout("\n", "") >> \o print_lines(Tail(paragraphs), alignment)

Paragraphs == { << >>, <<"in A">>, <<"Welcome to", "Island">> }
Alignments == {"left", "centre", "right"}

InitShell ==
  /\ OS_NAME \in OsNames
  /\ terminal = << >>
  /\ out = << >>
  /\ pc = "shell"
  /\ stop_words = { }
  /\ synonyms = << >>
  /\ content = File(<< >>)
  /\ scenes = << >>
  /\ current_scene = None
  /\ inventory = { }
  /\ states = { }
  /\ visited_scene_names = { }
  /\ in_progress = TRUE
  /\ stack = << >>
  /\ text_input = << >>
  /\ input_action_key = { }
  /\ reads = 0

\* Shell.clear()
Shell_clear ==
  /\ pc = "shell"
  /\ Len(out) < MaxCalls
  /\ out' = Append(out, ShellClear)
  /\ terminal' = terminal \o << system(clear_command(OS_NAME)), stdout("\n", "") >>
  /\ UNCHANGED <<OS_NAME, stop_words, synonyms, content, scenes, current_scene,
                 inventory, states, visited_scene_names, in_progress, pc, stack,
                 text_input, input_action_key, reads>>

\* Shell.print(paragraphs, alignment)
Shell_print ==
  /\ pc = "shell"
  /\ Len(out) < MaxCalls
  /\ \E ps \in Paragraphs, al \in Alignments :
        /\ out' = Append(out, ShellPrint(ps, al))
        /\ terminal' = terminal \o print_lines(ps, al)
  /\ UNCHANGED <<OS_NAME, stop_words, synonyms, content, scenes, current_scene,
                 inventory, states, visited_scene_names, in_progress, pc, stack,
                 text_input, input_action_key, reads>>

\* Shell.pause()
Shell_pause ==
  /\ pc = "shell"
  /\ Len(out) < MaxCalls
  /\ out' = Append(out, ShellPause)
  /\ terminal' = terminal \o
       (IF OS_NAME = "nt"
        THEN print_lines(<<"Press any key to continue...">>, "left") \o << getch >>
        ELSE << system("read -s -n 1 -p \"    Press any key to continue...\"") >>)
  /\ UNCHANGED <<OS_NAME, stop_words, synonyms, content, scenes, current_scene,
                 inventory, states, visited_scene_names, in_progress, pc, stack,
                 text_input, input_action_key, reads>>

NextShell == Shell_clear \/ Shell_print \/ Shell_pause

SpecShell == InitShell /\ [][NextShell]_vars

(***************************************************************************)
(* Properties of make_action_key (checked under SpecKey).                  *)
(***************************************************************************)
\* the words of a text in reverse order
RECURSIVE Reverse(_)
Reverse(ws) == IF ws = << >> THEN << >> ELSE Append(Reverse(Tail(ws)), Head(ws))

\* the text with one more space after the space at position i
ExtraSpace(text, i) == SubSeq(text, 1, i) \o <<SPACE>> \o SubSeq(text, i + 1, Len(text))

\* the text with every word s replaced by the word c
ReplaceWord(text, s, c) ==
  Join([i \in DOMAIN split(text) |-> IF split(text)[i] = s THEN c ELSE split(text)[i]])

KeyOf(text) == make_action_key(text, stop_words, synonyms)

\* C8: normalization is insensitive to word order, stopwords and the amount
\* of whitespace between words: with "the" as the only stop word, "go north",
\* "go  north" and "the north go" all get the key {go, north}; and the key of
\* a text does not change when its words are reversed, when a stop word is
\* put in front of it, or when a space between two words is doubled.
C8_NormalizationInsensitive ==
  pc = "key_done" =>
    /\ ( /\ stop_words = { W("the") }
         /\ text_input \in { <<"go", SPACE, "north">>, <<"go", SPACE, SPACE, "north">>,
                             <<"the", SPACE, "north", SPACE, "go">> } )
         => input_action_key = { W("go"), W("north") }
    /\ KeyOf(Join(Reverse(split(text_input)))) = input_action_key
    /\ \A w \in stop_words : KeyOf(w \o <<SPACE>> \o text_input) = input_action_key
    /\ \A i \in DOMAIN text_input :
         text_input[i] = SPACE => KeyOf(ExtraSpace(text_input, i)) = input_action_key

\* the part of C8 that the code keeps: word order and stop words
C8_OrderAndStopWords ==
  pc = "key_done" =>
    /\ KeyOf(Join(Reverse(split(text_input)))) = input_action_key
    /\ \A w \in stop_words : KeyOf(w \o <<SPACE>> \o text_input) = input_action_key

\* the words of the text that are no stop words and no synonyms
PlainWords(text) ==
  { w \in Range(split(text)) : w \notin stop_words /\ w \notin DOMAIN synonyms }

\* C9 as stated: for every synonym entry s -> c, a command containing s and
\* the same command with s replaced by c get the same key, and the words
\* absent from the synonym map are kept unchanged.
C9_SynonymsEveryEntry ==
  pc = "key_done" =>
    /\ \A s \in DOMAIN synonyms :
         s \in Range(split(text_input)) =>
           KeyOf(ReplaceWord(text_input, s, synonyms[s])) = input_action_key
    /\ PlainWords(text_input) \subseteq input_action_key

\* C9, amended: for every synonym entry s -> c where s is no stop word and c
\* is neither a stop word nor mapped to another word by the synonym map, a
\* command containing s and the same command with s replaced by c get the
\* same key; and the words that are neither stop words nor in the synonym
\* map are kept unchanged.
C9_SynonymCanonicalization ==
  pc = "key_done" =>
    /\ \A s \in DOMAIN synonyms :
         ( /\ s \in Range(split(text_input))
           /\ s \notin stop_words
           /\ synonyms[s] \notin stop_words
           /\ translate(synonyms[s], synonyms) = synonyms[s] )
         => KeyOf(ReplaceWord(text_input, s, synonyms[s])) = input_action_key
    /\ PlainWords(text_input) \subseteq input_action_key

\* "walk north" with walk -> go: the key is {go, north}, the key of "go north"
C9_Witness ==
  /\ pc = "key_done"
  /\ text_input = <<"walk", SPACE, "north">>
  /\ stop_words = { W("the") }
  /\ synonyms = (W("walk") :> W("go"))
  /\ input_action_key = { W("go"), W("north") }
  /\ KeyOf(<<"go", SPACE, "north">>) = input_action_key

(***************************************************************************)
(* Properties of the turn loop (checked under Spec).                       *)
(***************************************************************************)
\* the action play() works on, and whether its i-th outcome is satisfied
PlayedAction == _match_action(scenes[current_scene], input_action_key)
Satisfied(action, i) == check_requirements(action.outcomes[i], Player)

\* C1: outcome resolution is first-match-wins: a turn that found an action
\* goes on with the earliest outcome, in authored order, whose requirements
\* are all true against the player, and finds no outcome only when no
\* outcome of the action has all its requirements true.
C1_FirstMatchWins ==
  [][ (pc = "play" /\ PlayedAction # << >>) =>
        LET a == PlayedAction[1] IN
          IF \E i \in DOMAIN a.outcomes : Satisfied(a, i)
          THEN /\ pc' = "mutate"
               /\ \E i \in DOMAIN a.outcomes :
                    /\ Satisfied(a, i)
                    /\ \A j \in 1..(i - 1) : ~Satisfied(a, j)
                    /\ Top'.outcome = a.outcomes[i]
          ELSE /\ pc' = "return"
               /\ stack' = stack ]_vars

\* [O1 requires has_item knife, O2 no requirements], a player without the
\* knife: O2 is chosen
C1_Witness ==
  /\ pc = "mutate"
  /\ Top.i = 1
  /\ Len(Top.action.outcomes) = 2
  /\ Top.action.outcomes[1].requirements = << Req("has_item", "knife") >>
  /\ Top.action.outcomes[2].requirements = << >>
  /\ "knife" \notin inventory
  /\ Top.outcome = Top.action.outcomes[2]

\* C2: play() works on the action of the current scene with exactly the
\* input key if there is one (the empty key included), otherwise on the
\* scene's {_no_match} action if there is one, and otherwise on no action:
\* then the turn prints the failure message and returns, with no outcome
\* looked at.
C2_ActionMatching ==
  [][ pc = "play" =>
        LET acts == Range(scenes[current_scene].actions)
            exact == { a \in acts : a.key = input_action_key }
            default == { a \in acts : a.key = NO_MATCH }
        IN /\ pc' = "mutate" =>
                Top'.action \in (IF exact # { } THEN exact ELSE default)
           /\ (exact = { } /\ default = { }) =>
                /\ pc' = "return"
                /\ out' = Append(out, CANNOT)
                /\ stack' = stack ]_vars

\* the empty key matched the action whose key is the empty set, in a scene
\* that also has a {_no_match} action
C2_Witness ==
  /\ pc = "mutate"
  /\ Top.i = 1
  /\ input_action_key = { }
  /\ Top.action.key = { }
  /\ NO_MATCH \in DOMAIN scenes[current_scene].actions

\* _update_states is about to apply a mutator of the given type
Applying(type) ==
  /\ pc = "mutate"
  /\ Top.i <= Len(Top.outcome.mutators)
  /\ Top.outcome.mutators[Top.i].type = type

\* _update_states has applied every mutator of the outcome
MutatorsDone == pc = "mutate" /\ Top.i > Len(Top.outcome.mutators)

HasMove(outcome) ==
  \E n \in DOMAIN outcome.mutators : outcome.mutators[n].type = "player_move_to"

\* a player_move_to(target) that does not raise sets current_scene to
\* scenes[target]
MoveSetsScene ==
  (Applying("player_move_to") /\ pc' = "mutate") =>
     current_scene' = scenes[Top.outcome.mutators[Top.i].target].key

\* C3 as stated: a player_move_to(target) sets current_scene to
\* scenes[target], and after an outcome in which a player_move_to was applied
\* the _arrive turn of the scene runs, once (also when the player was already
\* in the target scene); a turn that returns starts no other turn.
C3_ArrivalOncePerMove ==
  [][ /\ MoveSetsScene
      /\ (MutatorsDone /\ HasMove(Top.outcome) /\ Len(stack) < MaxDepth) =>
            /\ pc' = "play"
            /\ input_action_key' = ARRIVE
            /\ current_scene' = current_scene
      /\ pc = "return" => pc' \in {"return", "loop"} ]_vars

\* C3, amended: a player_move_to(target) sets current_scene to
\* scenes[target]; once the mutators of an outcome have all been applied, one
\* _arrive turn is started for the current scene if it differs from the scene
\* held before the mutators ran (it is not run, RecursionError, when the
\* arrival turns have nested up to the interpreter's limit), and none if it
\* is the same scene, as after a move to the scene the player is already in;
\* no other step starts an _arrive turn, and a turn that returns starts none.
C3_ArrivalOncePerSceneChange ==
  [][ /\ MoveSetsScene
      /\ MutatorsDone =>
           IF Top.player_original_scene # current_scene
           THEN \/ /\ pc' = "play"
                   /\ input_action_key' = ARRIVE
                   /\ current_scene' = current_scene
                   /\ stack' = stack
                \/ /\ Len(stack) >= MaxDepth
                   /\ pc' = "crashed"
           ELSE /\ pc' = "return"
                /\ stack' = SubSeq(stack, 1, Len(stack) - 1)
      /\ (pc' = "play" /\ stack' # << >>) =>
           (MutatorsDone /\ Top.player_original_scene # current_scene)
      /\ pc = "return" => pc' \in {"return", "loop"} ]_vars

\* the arrival turn of scene B is running after player_move_to(B) in scene A
C3_Witness ==
  /\ pc = "play"
  /\ stack # << >>
  /\ input_action_key = ARRIVE
  /\ Top.player_original_scene = "A"
  /\ current_scene = "B"
  /\ HasMove(Top.outcome)

\* C4: remove_item(t) with t not in the inventory, and remove_state(t) with
\* t not in the states, does not raise and changes nothing, and
\* _update_states goes on with the next mutator.
C4_RemoveAbsentIsNoOp ==
  [][ ( \/ ( /\ Applying("remove_item")
             /\ Top.outcome.mutators[Top.i].target \notin inventory )
        \/ ( /\ Applying("remove_state")
             /\ Top.outcome.mutators[Top.i].target \notin states ) )
      => /\ pc' = "mutate"
         /\ Top'.i = Top.i + 1
         /\ UNCHANGED <<current_scene, inventory, states, visited_scene_names,
                        in_progress>> ]_vars

\* C5: applying game_end makes in_progress false, and once it is false no
\* turn is started any more, neither a player turn nor an _arrive turn.
C5_TerminalGameEnd ==
  [][ /\ (Applying("game_end") /\ pc' = "mutate") => ~in_progress'
      /\ ~in_progress => pc' # "play" ]_vars

\* C6: in_progress starts true, only the game_end mutator changes it, and
\* once false it stays false.
C6_InProgressOneShot ==
  /\ in_progress = TRUE
  /\ [][ /\ in_progress' # in_progress => Applying("game_end")
         /\ ~in_progress => ~in_progress' ]_vars

\* game_end has been applied and a later mutator of the same outcome too
C6_Witness ==
  /\ pc = "mutate"
  /\ ~in_progress
  /\ Top.i = 3
  /\ Top.outcome.mutators[1].type = "game_end"

\* C7: once in_progress is false no command is read any more, and the loop
\* of start(), reached with in_progress false, ends.
C7_LoopStops ==
  [][ /\ ~in_progress => reads' = reads
      /\ (pc = "loop" /\ ~in_progress) => pc' = "done" ]_vars

\* start() has returned after a player turn, with commands left to read
C7_Witness ==
  /\ pc = "done"
  /\ ~in_progress
  /\ reads > 0
  /\ reads < MaxReads

\* two actions of the scene get the same key
DuplicateKeys(s) ==
  LET al == actions_list(s, stop_words, synonyms) IN
    \E i, j \in DOMAIN al : i # j /\ al[i].key = al[j].key

\* C10: a file with a scene in which two actions have the same key after
\* normalization is rejected at construction, before any turn runs; in the
\* scenes of a game that plays the action keys are pairwise distinct.
C10_DuplicateKeysRejected ==
  \A n \in DOMAIN content.scenes :
    DuplicateKeys(content.scenes[n]) =>
      /\ pc \in {"new", "load_error"}
      /\ scenes = << >>
      /\ current_scene = None
      /\ out = << >>

\* "go north" and "north the go" in one scene: the construction has failed
C10_Witness ==
  /\ pc = "load_error"
  /\ ~tag_error(content)
  /\ \E n \in DOMAIN content.scenes :
       \E i, j \in DOMAIN content.scenes[n].actions :
         /\ content.scenes[n].actions[i].key # content.scenes[n].actions[j].key
         /\ DuplicateKeys(content.scenes[n])

(***************************************************************************)
(* Properties of the construction and of the mutators (checked under       *)
(* Spec).                                                                  *)
(***************************************************************************)
\* the outcomes, mutators and requirements written in a file
FileOutcomes(doc) ==
  UNION { Range(a.outcomes) : a \in UNION { Range(sc.actions) : sc \in Range(doc.scenes) } }
FileMutators(doc) == UNION { Range(o.mutators) : o \in FileOutcomes(doc) }
FileRequirements(doc) == UNION { Range(o.requirements) : o \in FileOutcomes(doc) }

\* the innermost _update_states has stopped with an exception
RaisedIn(type) ==
  /\ pc = "crashed"
  /\ stack # << >>
  /\ Top.i <= Len(Top.outcome.mutators)
  /\ Top.outcome.mutators[Top.i].type = type

\* C11: a player_move_to or player_arrive whose target is no scene of the
\* file is found when the game is constructed, so no turn ever fails on
\* one: _update_states never stops with an exception at a player_move_to or
\* player_arrive mutator.
C11_MissingSceneRejected ==
  /\ ~RaisedIn("player_move_to")
  /\ ~RaisedIn("player_arrive")

\* C12: a file with a requirement or mutator type outside the closed sets
\* is rejected when the game is constructed: no scene is made of it and
\* nothing of the game runs, so every requirement and mutator of a game that
\* runs has a known type.
C12_UnknownTagRejected ==
  ( \/ \E m \in FileMutators(content) :
         m.type \notin {"player_move_to", "player_arrive", "add_item", "remove_item",
                        "add_state", "remove_state", "game_end"}
    \/ \E r \in FileRequirements(content) :
         r.type \notin {"has_item", "not_has_item", "has_state", "not_has_state",
                        "has_visited", "not_has_visited"} )
  => /\ pc \in {"new", "load_error"}
     /\ scenes = << >>
     /\ current_scene = None
     /\ out = << >>
     /\ reads = 0

\* a file with the mutator type teleport and no duplicate key: Game.__init__
\* has raised
C12_Witness ==
  /\ pc = "load_error"
  /\ \E m \in FileMutators(content) : m.type = "teleport"
  /\ ~duplicate_error(content, stop_words, synonyms)

\* play() finds no action, or an action none of whose outcomes is satisfied
NoOutcome ==
  \/ PlayedAction = << >>
  \/ \A i \in DOMAIN PlayedAction[1].outcomes : ~Satisfied(PlayedAction[1], i)

\* C13: a turn that finds no action, or an action with no satisfied outcome
\* (an action without outcomes included), prints the one message "You cannot
\* do that now.", raises nothing and leaves the player and in_progress as
\* they are; play() returns, and the loop of start() reads the next command.
C13_NonMatchIsNoError ==
  [][ /\ (pc = "play" /\ NoOutcome) =>
           /\ out' = Append(out, ShellPrint(<<"You cannot do that now.">>, "left"))
           /\ pc' = "return"
           /\ stack' = stack
           /\ UNCHANGED <<current_scene, inventory, states, visited_scene_names,
                          in_progress>>
      /\ pc = "return" =>
           /\ pc' = (IF stack = << >> THEN "loop" ELSE "return")
           /\ UNCHANGED <<current_scene, inventory, states, visited_scene_names,
                          in_progress, out>>
      /\ (pc = "loop" /\ in_progress) =>
           /\ pc' = "play"
           /\ reads' = reads + 1 ]_vars

\* "jump" in a scene whose jump action has no outcome: the message is all
\* that was printed and play() is returning to the loop
C13_Witness ==
  /\ pc = "return"
  /\ stack = << >>
  /\ reads > 0
  /\ input_action_key = { W("jump") }
  /\ input_action_key \in DOMAIN scenes[current_scene].actions
  /\ scenes[current_scene].actions[input_action_key].outcomes = << >>
  /\ out = << ShellPrint(<<"You cannot do that now.">>, "left") >>

\* C14 as stated: start() sets current_scene to the first scene and runs the
\* first turn with the key {_arrive}, without reading a command.
C14_StartsWithArrive ==
  [][ (pc = "ready" /\ content.metadata.first_scene \in DOMAIN scenes) =>
        /\ pc' = "play"
        /\ current_scene' = content.metadata.first_scene
        /\ input_action_key' = ARRIVE
        /\ reads' = reads ]_vars

\* C14, amended: start() sets current_scene to the scene the metadata name
\* as first_scene (KeyError, and no turn, if the file has no such scene) and
\* runs the first turn with the key made of the one element first_action, the
\* text of the metadata as it is written, without reading a command; commands
\* are read only in the loop that follows the first turn.
C14_StartsWithFirstAction ==
  [][ /\ pc = "ready" =>
           /\ reads' = reads
           /\ stack' = << >>
           /\ IF \E n \in DOMAIN content.scenes :
                   content.scenes[n].key = content.metadata.first_scene
              THEN /\ pc' = "play"
                   /\ current_scene' = content.metadata.first_scene
                   /\ input_action_key' = { content.metadata.first_action }
              ELSE /\ pc' = "crashed"
                   /\ current_scene' = current_scene
      /\ reads' # reads => pc = "loop" ]_vars

\* the first turn is about to run in the first scene with the key {_arrive}
C14_Witness ==
  /\ pc = "play"
  /\ reads = 0
  /\ stack = << >>
  /\ out # << >>
  /\ content.metadata.first_action = <<"_arrive">>
  /\ input_action_key = ARRIVE
  /\ current_scene = content.metadata.first_scene
  /\ inventory = { }

\* the step changes the game as the mutator m of the table of mutators does
Effect(m) ==
  CASE m.type = "player_move_to" ->
         /\ current_scene' = scenes[m.target].key
         /\ UNCHANGED <<inventory, states, visited_scene_names, in_progress>>
    [] m.type = "player_arrive" ->
         /\ visited_scene_names' = visited_scene_names \cup { scenes[m.target].key }
         /\ UNCHANGED <<current_scene, inventory, states, in_progress>>
    [] m.type = "add_item" ->
         /\ inventory' = inventory \cup { m.target }
         /\ UNCHANGED <<current_scene, states, visited_scene_names, in_progress>>
    [] m.type = "remove_item" ->
         /\ inventory' = inventory \ { m.target }
         /\ UNCHANGED <<current_scene, states, visited_scene_names, in_progress>>
    [] m.type = "add_state" ->
         /\ states' = states \cup { m.target }
         /\ UNCHANGED <<current_scene, inventory, visited_scene_names, in_progress>>
    [] m.type = "remove_state" ->
         /\ states' = states \ { m.target }
         /\ UNCHANGED <<current_scene, inventory, visited_scene_names, in_progress>>
    [] m.type = "game_end" ->
         /\ in_progress' = FALSE
         /\ UNCHANGED <<current_scene, inventory, states, visited_scene_names>>

\* what holds of the game right after the mutator m was applied
Established(m) ==
  CASE m.type = "player_move_to" -> current_scene = m.target
    [] m.type = "player_arrive"  -> m.target \in visited_scene_names
    [] m.type = "add_item"       -> m.target \in inventory
    [] m.type = "remove_item"    -> m.target \notin inventory
    [] m.type = "add_state"      -> m.target \in states
    [] m.type = "remove_state"   -> m.target \notin states
    [] m.type = "game_end"       -> ~in_progress

\* C15: the mutators of the chosen outcome are applied in the order of the
\* list, one at a time from the first, each to the game the one before left:
\* a turn starts at the first mutator, each step applies the mutator at the
\* position reached and moves one position on (a mutator that raises ends
\* the turn and changes nothing), and when all are applied the game is as
\* the last mutator of the list leaves it.
C15_MutatorsInOrder ==
  /\ [][ /\ (pc = "play" /\ pc' = "mutate") => Top'.i = 1
         /\ (pc = "mutate" /\ Top.i <= Len(Top.outcome.mutators)) =>
              \/ /\ pc' = "mutate"
                 /\ Effect(Top.outcome.mutators[Top.i])
                 /\ stack' = [stack EXCEPT ![Len(stack)].i = Top.i + 1]
              \/ /\ pc' = "crashed"
                 /\ UNCHANGED <<current_scene, inventory, states,
                                visited_scene_names, in_progress, stack>>
         /\ (pc = "mutate" /\ Top.i > Len(Top.outcome.mutators)) =>
              UNCHANGED <<current_scene, inventory, states, visited_scene_names,
                          in_progress>> ]_vars
  /\ []((pc = "mutate" /\ Top.i > 1) => Established(Top.outcome.mutators[Top.i - 1]))

\* add_item(knife) and then remove_item(knife) were applied, in this order:
\* the knife is not in the inventory
C15_Witness ==
  /\ MutatorsDone
  /\ Top.outcome.mutators = << Mut("add_item", "knife"), Mut("remove_item", "knife") >>
  /\ "knife" \notin inventory

\* C16: the outcome of a turn is selected against the player as play() finds
\* it, before any mutator runs: it is the first satisfied outcome of the
\* matched action at that moment, the selection changes nothing, and
\* while the mutators run and the text is printed the turn keeps that
\* outcome, whatever its mutators did to the requirements.
C16_SelectedBeforeMutators ==
  [][ /\ (pc = "play" /\ pc' = "mutate") =>
           /\ \E i \in DOMAIN PlayedAction[1].outcomes :
                 /\ Satisfied(PlayedAction[1], i)
                 /\ \A j \in 1..(i - 1) : ~Satisfied(PlayedAction[1], j)
                 /\ Top'.outcome = PlayedAction[1].outcomes[i]
           /\ Top'.action = PlayedAction[1]
           /\ UNCHANGED <<current_scene, inventory, states, visited_scene_names,
                          in_progress>>
      /\ (pc = "mutate" /\ Len(stack') >= Len(stack)) =>
           /\ stack'[Len(stack)].outcome = Top.outcome
           /\ stack'[Len(stack)].action = Top.action
      /\ (pc = "mutate" /\ Top.i <= Len(Top.outcome.mutators) /\ pc' = "mutate") =>
           Effect(Top.outcome.mutators[Top.i])
      /\ MutatorsDone =>
           /\ out' # out
           /\ out'[Len(out')] = ShellPrint(Top.outcome.text, "left") ]_vars

\* the mutator of the selected outcome has made its requirement false and
\* another outcome of the action is now the first satisfied one
C16_Witness ==
  /\ MutatorsDone
  /\ Top.i > 1
  /\ ~check_requirements(Top.outcome, Player)
  /\ _match_outcome(Top.action, Player) # << >>
  /\ _match_outcome(Top.action, Player)[1].text # Top.outcome.text

\* C17: every turn runs to completion: once the mutators of an outcome are
\* applied, the turn goes on, through every arrival turn it starts, back to
\* the loop; no arrival turn fails to be run, also when the arrival outcomes
\* move the player themselves (the arrival of A to B, that of B to A).
C17_TurnCompletes ==
  [][ MutatorsDone => pc' \in {"play", "return"} ]_vars

\* C18: the order within a turn: first the mutators, during which nothing
\* is printed and no command is read; then, if current_scene differs from
\* the scene held before the mutators ran, the presentation is cleared, the
\* text of the outcome is printed and one {_arrive} turn is run in the new
\* scene (RecursionError if the turns have nested up to the limit), the turn
\* returning to the loop only after that turn has returned; if the scene is
\* the same, the text alone is printed, with no clear and no arrival turn.
C18_OrderWithinTurn ==
  [][ /\ (pc = "mutate" /\ Top.i <= Len(Top.outcome.mutators)) =>
           /\ out' = out
           /\ pc' \in {"mutate", "crashed"}
      /\ MutatorsDone =>
           IF current_scene # Top.player_original_scene
           THEN /\ out' = out \o << [op |-> "clear", paragraphs |-> << >>, alignment |-> ""],
                                    [op |-> "print", paragraphs |-> Top.outcome.text,
                                     alignment |-> "left"] >>
                /\ stack' = stack
                /\ current_scene' = current_scene
                /\ \/ pc' = "play" /\ input_action_key' = ARRIVE
                   \/ pc' = "crashed" /\ Len(stack) >= MaxDepth
           ELSE /\ out' = Append(out, [op |-> "print", paragraphs |-> Top.outcome.text,
                                       alignment |-> "left"])
                /\ stack' = SubSeq(stack, 1, Len(stack) - 1)
                /\ pc' = "return"
      /\ stack # << >> => reads' = reads
      /\ pc' = "loop" => (pc = "return" /\ stack = << >>) ]_vars

\* the scene changed from A to B: the presentation was cleared, the text was
\* printed, and the arrival turn of B is about to run
C18_Witness ==
  /\ pc = "play"
  /\ stack # << >>
  /\ Top.player_original_scene = "A"
  /\ current_scene = "B"
  /\ input_action_key = ARRIVE
  /\ Len(out) >= 2
  /\ out[Len(out) - 1].op = "clear"
  /\ out[Len(out)] = [op |-> "print", paragraphs |-> Top.outcome.text, alignment |-> "left"]

\* the step appends a clear of the presentation to the output
Clears ==
  /\ Len(out') > Len(out)
  /\ \E n \in (Len(out) + 1)..Len(out') : out'[n].op = "clear"

\* the step clears the presentation and then prints the text, and no more
ClearsThenPrints(text) ==
  out' = out \o << [op |-> "clear", paragraphs |-> << >>, alignment |-> ""],
                   [op |-> "print", paragraphs |-> text, alignment |-> "left"] >>

\* C19 as stated: when the outcome applied has a player_move_to among its
\* mutators, the presentation is cleared before the text of the outcome is
\* printed; an outcome with no player_move_to does not clear it.
C19_ClearsIffMove ==
  [][ MutatorsDone =>
        IF HasMove(Top.outcome)
        THEN ClearsThenPrints(Top.outcome.text)
        ELSE ~Clears ]_vars

\* C19, amended: the presentation is cleared before the text of the outcome
\* is printed when, and only when, current_scene after the mutators differs
\* from the scene held before them; so an outcome with no player_move_to
\* never clears it, and one with a player_move_to clears it unless the
\* player ends in the scene the turn began in.  No other step of a turn
\* clears the presentation.
C19_ClearsIffSceneChanged ==
  [][ /\ MutatorsDone =>
           /\ IF current_scene # Top.player_original_scene
              THEN ClearsThenPrints(Top.outcome.text)
              ELSE /\ ~Clears
                   /\ out' = Append(out, [op |-> "print", paragraphs |-> Top.outcome.text,
                                          alignment |-> "left"])
           /\ ~HasMove(Top.outcome) => current_scene = Top.player_original_scene
      /\ (Clears /\ pc \notin {"new", "ready"}) =>
           (MutatorsDone /\ HasMove(Top.outcome)) ]_vars

\* an outcome with player_move_to(B), applied in scene A, has cleared the
\* presentation and printed its text
C19_Witness ==
  /\ pc = "play"
  /\ stack # << >>
  /\ Top.i > Len(Top.outcome.mutators)
  /\ \E n \in DOMAIN Top.outcome.mutators :
        Top.outcome.mutators[n] = Mut("player_move_to", "B")
  /\ Top.player_original_scene = "A"
  /\ Len(out) >= 2
  /\ out[Len(out) - 1] = [op |-> "clear", paragraphs |-> << >>, alignment |-> ""]
  /\ out[Len(out)].paragraphs = Top.outcome.text

\* the mutator being applied
Applied == Top.outcome.mutators[Top.i]

\* C20: each mutator changes its own component of the game and no other:
\* player_move_to(t) sets current_scene to scenes[t] and leaves the
\* inventory, the states, the visited scenes and in_progress; player_arrive(t)
\* adds scenes[t].key to the visited scenes and leaves the rest, current_scene
\* included; add_item and remove_item change the inventory alone, add_state
\* and remove_state the states alone, game_end in_progress alone; the scenes
\* are never changed.
C20_MutatorFrames ==
  [][ /\ Applying("player_move_to") =>
           /\ pc' = "mutate" => current_scene' = scenes[Applied.target].key
           /\ UNCHANGED <<inventory, states, visited_scene_names, in_progress>>
      /\ Applying("player_arrive") =>
           /\ pc' = "mutate" =>
                visited_scene_names' = visited_scene_names \cup { scenes[Applied.target].key }
           /\ UNCHANGED <<current_scene, inventory, states, in_progress>>
      /\ (Applying("add_item") \/ Applying("remove_item")) =>
           UNCHANGED <<current_scene, states, visited_scene_names, in_progress>>
      /\ (Applying("add_state") \/ Applying("remove_state")) =>
           UNCHANGED <<current_scene, inventory, visited_scene_names, in_progress>>
      /\ Applying("game_end") =>
           UNCHANGED <<current_scene, inventory, states, visited_scene_names>>
      /\ pc = "mutate" => scenes' = scenes ]_vars

\* player_move_to(B) was applied in scene A: the player is in B, and B is
\* not among the visited scenes
C20_Witness ==
  /\ pc = "mutate"
  /\ Top.i = 2
  /\ Top.outcome.mutators[1] = Mut("player_move_to", "B")
  /\ Top.player_original_scene = "A"
  /\ current_scene = "B"
  /\ visited_scene_names = { }
  /\ in_progress

(***************************************************************************)
(* Frames, determinism and the rules of matching.                          *)
(***************************************************************************)
\* the step writes one of the four fields of the player
PlayerWritten ==
  \/ current_scene' # current_scene
  \/ inventory' # inventory
  \/ states' # states
  \/ visited_scene_names' # visited_scene_names

\* C21 as stated: the player is written by mutators alone, while an outcome
\* is applied: a step that changes current_scene, inventory, states or
\* visited_scene_names is the application of a mutator.
C21_OnlyMutatorsWrite ==
  [][ PlayerWritten => (pc = "mutate" /\ Top.i <= Len(Top.outcome.mutators)) ]_vars

\* C21, amended: apart from start(), which puts the player in the first
\* scene before the first turn and writes nothing else, the player is written
\* by mutators alone, while an outcome is applied: reading and normalizing a
\* command, matching the action, resolving the outcome and printing leave
\* current_scene, inventory, states and visited_scene_names as they are, so
\* that the outcome resolved is still the one resolved when the resolution
\* is done again on the player it left.
C21_OnlyStartAndMutatorsWrite ==
  [][ /\ PlayerWritten =>
           \/ pc = "mutate" /\ Top.i <= Len(Top.outcome.mutators) /\ pc' = "mutate"
           \/ /\ pc = "ready"
              /\ current_scene' = content.metadata.first_scene
              /\ UNCHANGED <<inventory, states, visited_scene_names>>
      /\ pc \in {"loop", "play", "return"} => ~PlayerWritten
      /\ MutatorsDone => ~PlayerWritten
      /\ (pc = "play" /\ pc' = "mutate") =>
           /\ _match_action(scenes'[current_scene'], input_action_key') = << Top'.action >>
           /\ _match_outcome(Top'.action, Player') = << Top'.outcome >> ]_vars

\* a command was read and normalized, its action matched and its outcome
\* resolved, and the player is as the game found them
C21_Witness ==
  /\ pc = "mutate"
  /\ reads = 1
  /\ Len(stack) = 1
  /\ Top.i = 1
  /\ Top.outcome.requirements # << >>
  /\ Top.outcome.mutators # << >>
  /\ current_scene = "A"
  /\ inventory = {"knife"}
  /\ states = { }
  /\ visited_scene_names = {"B"}

\* the files of the runs compared: those with one mutator at most in the
\* outcome that varies, those with at most one requirement, on the knife, in
\* each of the two outcomes, and the families of the arrivals, of the
\* metadata and of the fallback
DetFiles ==
  { f \in MutatorFiles : \A o \in FileOutcomes(f) : Len(o.mutators) <= 1 }
    \cup { f \in RequirementFiles :
             /\ FileRequirements(f) \subseteq { Req("has_item", "knife"),
                                                Req("not_has_item", "knife") }
             /\ \A o \in FileOutcomes(f) : Len(o.requirements) <= 1 }
    \cup ArrivalFiles \cup MetadataFiles \cup FallbackFiles

InitDet == Init /\ content \in DetFiles

SpecDet == InitDet /\ [][Next]_vars

\* a step of the game in a run that is fed the command t when it reads one
Fed(t) == Next /\ (reads' # reads => text_input' = t)

\* what a print or a clear can append to the output
Rendered ==
  { ShellClear, ShellPause,
    ShellPrint(<<"You cannot do that now.">>, "left"),
    ShellPrint(<<"Welcome to", content.metadata.title>>, "centre"),
    ShellPrint(<<"To play the game, enter simple commands">>, "left") }
    \cup { ShellPrint(o.text, "left") : o \in FileOutcomes(content) }

\* the commands a step can be fed: one matters only where a command is read
Feeds == IF pc = "loop" THEN Commands ELSE { << >> }

\* C22: turn resolution is deterministic: from one state of the game, fed
\* one command, every step leads to one player state, one in_progress value,
\* one control point and one rendered output: no two steps from the same
\* state on the same command differ in current_scene, inventory, states,
\* visited_scene_names, in_progress, pc, the depth of the turns or what is
\* rendered.  Two runs from the same file and player on the same commands
\* therefore go through the same states and texts.
C22_Deterministic ==
  \A t \in Feeds :
     /\ \A v \in {None, "A", "B"} :
           ~(ENABLED (Fed(t) /\ current_scene' = v) /\ ENABLED (Fed(t) /\ current_scene' # v))
     /\ \A v \in SUBSET {"knife"} :
           ~(ENABLED (Fed(t) /\ inventory' = v) /\ ENABLED (Fed(t) /\ inventory' # v))
     /\ \A v \in SUBSET {"lit"} :
           ~(ENABLED (Fed(t) /\ states' = v) /\ ENABLED (Fed(t) /\ states' # v))
     /\ \A v \in SUBSET {"A", "B"} :
           ~(ENABLED (Fed(t) /\ visited_scene_names' = v)
               /\ ENABLED (Fed(t) /\ visited_scene_names' # v))
     /\ ~(ENABLED (Fed(t) /\ in_progress') /\ ENABLED (Fed(t) /\ ~in_progress'))
     /\ \A v \in {"load_error", "ready", "play", "mutate", "return", "loop", "done",
                  "crashed"} :
           ~(ENABLED (Fed(t) /\ pc' = v) /\ ENABLED (Fed(t) /\ pc' # v))
     /\ \A n \in 0..(Len(stack) + 1) :
           ~(ENABLED (Fed(t) /\ Len(stack') = n) /\ ENABLED (Fed(t) /\ Len(stack') # n))
     /\ ~(ENABLED (Fed(t) /\ stack' # << >> /\ Top'.outcome.text = <<"o1">>)
            /\ ENABLED (Fed(t) /\ ~(stack' # << >> /\ Top'.outcome.text = <<"o1">>)))
     /\ \A n \in {0, 5, Len(out), Len(out) + 1, Len(out) + 2} :
           ~(ENABLED (Fed(t) /\ Len(out') = n) /\ ENABLED (Fed(t) /\ Len(out') # n))
     /\ \A e \in Rendered :
           ~(ENABLED (Fed(t) /\ out' # << >> /\ out'[Len(out')] = e)
               /\ ENABLED (Fed(t) /\ ~(out' # << >> /\ out'[Len(out')] = e)))
     /\ ~(ENABLED (Fed(t) /\ Len(out') > 1 /\ out'[Len(out') - 1] = ShellClear)
            /\ ENABLED (Fed(t) /\ ~(Len(out') > 1 /\ out'[Len(out') - 1] = ShellClear)))

\* two commands were fed and resolved; the second turn changed the player
C22_Witness ==
  /\ pc = "return"
  /\ reads = 2
  /\ stack = << >>
  /\ out # << >>
  /\ out[Len(out)].paragraphs # <<"You cannot do that now.">>
  /\ current_scene = "B"

\* the mutator being applied is the same as the one applied just before it
AppliedAgain(type) ==
  /\ Applying(type)
  /\ Top.i > 1
  /\ Top.outcome.mutators[Top.i - 1] = Top.outcome.mutators[Top.i]

\* C23: add_item(t), add_state(t) and player_arrive(t) are idempotent: the
\* first application puts t in the inventory, the states or the visited
\* scenes, which are sets, and the second application, straight after the
\* first, raises nothing and leaves the player as the first left them.
C23_AddIdempotent ==
  [][ /\ Applying("add_item") =>
           /\ pc' = "mutate"
           /\ inventory' = inventory \cup { Top.outcome.mutators[Top.i].target }
      /\ Applying("add_state") =>
           /\ pc' = "mutate"
           /\ states' = states \cup { Top.outcome.mutators[Top.i].target }
      /\ (Applying("player_arrive") /\ pc' = "mutate") =>
           visited_scene_names' =
              visited_scene_names \cup { Top.outcome.mutators[Top.i].target }
      /\ (AppliedAgain("add_item") \/ AppliedAgain("add_state")
            \/ AppliedAgain("player_arrive")) =>
           /\ pc' = "mutate"
           /\ UNCHANGED <<current_scene, inventory, states, visited_scene_names,
                          in_progress>> ]_vars

\* add_item(knife) was applied twice: the knife is in the inventory, once
C23_Witness ==
  /\ MutatorsDone
  /\ Top.outcome.mutators = << Mut("add_item", "knife"), Mut("add_item", "knife") >>
  /\ inventory = {"knife"}
  /\ Cardinality(inventory) = 1

\* C24: every scene that the construction accepted, and that is in the game
\* while it is played, has an action of key {_arrive}.
C24_SceneHasArrive ==
  \A k \in DOMAIN scenes : ARRIVE \in DOMAIN scenes[k].actions

(***************************************************************************)
(* The Shell (checked under SpecShell).                                    *)
(***************************************************************************)
\* C25: clearing the screen runs one OS command, 'cls' when os.name is 'nt'
\* and 'clear' for every other name, and then writes one newline, and no
\* more.
C25_ClearCommand ==
  [][ out' = Append(out, [op |-> "clear", paragraphs |-> << >>, alignment |-> ""]) =>
        terminal' = terminal \o
           << [kind |-> "system", text |-> (IF OS_NAME = "nt" THEN "cls" ELSE "clear"),
               layout |-> ""],
              [kind |-> "stdout", text |-> "\n", layout |-> ""] >> ]_vars

\* the screen was cleared, once, on an OS that is neither nt nor posix
C25_Witness ==
  /\ pc = "shell"
  /\ OS_NAME = "java"
  /\ out = << ShellClear >>
  /\ terminal = << [kind |-> "system", text |-> "clear", layout |-> ""],
                   [kind |-> "stdout", text |-> "\n", layout |-> ""] >>

(***************************************************************************)
(* More on matching and on the turn (checked under Spec).                  *)
(***************************************************************************)
\* C26: _no_match stands in for a missing action only: when the scene has
\* an action of exactly the key of the input and no outcome of that action
\* is satisfied, the _no_match action of the scene, if there is one and
\* whatever its outcomes, is not resolved: the turn prints "You cannot do
\* that now." and returns, the player unchanged.
C26_NoFallbackOnFailedResolution ==
  [][ ( /\ pc = "play"
        /\ input_action_key \in DOMAIN scenes[current_scene].actions
        /\ \A n \in DOMAIN scenes[current_scene].actions[input_action_key].outcomes :
              \E k \in DOMAIN scenes[current_scene].actions[input_action_key]
                                 .outcomes[n].requirements :
                 ~check_func(scenes[current_scene].actions[input_action_key]
                                .outcomes[n].requirements[k], Player) ) =>
        /\ out' = Append(out, ShellPrint(<<"You cannot do that now.">>, "left"))
        /\ pc' = "return"
        /\ stack' = stack
        /\ UNCHANGED <<current_scene, inventory, states, visited_scene_names,
                       in_progress>> ]_vars

\* "go north" where the outcome of go north asks for a knife the player has
\* not, in a scene whose _no_match action has an outcome that is satisfied:
\* the message was printed
C26_Witness ==
  /\ pc = "return"
  /\ stack = << >>
  /\ input_action_key = { W("go"), W("north") }
  /\ input_action_key \in DOMAIN scenes[current_scene].actions
  /\ scenes[current_scene].actions[input_action_key].outcomes # << >>
  /\ NO_MATCH \in DOMAIN scenes[current_scene].actions
  /\ _match_outcome(scenes[current_scene].actions[NO_MATCH], Player) # << >>
  /\ out = << ShellPrint(<<"You cannot do that now.">>, "left") >>

\* the requirement r holds of the player, by the table of requirements
Holds(r) ==
  LET has == CASE r.type \in {"has_item", "not_has_item"}       -> r.target \in inventory
               [] r.type \in {"has_state", "not_has_state"}     -> r.target \in states
               [] r.type \in {"has_visited", "not_has_visited"} ->
                    r.target \in visited_scene_names
  IN IF r.type \in {"has_item", "has_state", "has_visited"} THEN has ELSE ~has

\* every requirement of the outcome holds
Matches(outcome) == \A k \in DOMAIN outcome.requirements : Holds(outcome.requirements[k])

\* C27: an outcome matches exactly when all its requirements hold, has_item,
\* has_state and has_visited being membership of the target in the
\* inventory, the states and the visited scenes and each not_has_ the
\* negation of its has_; an outcome with no requirement matches whatever the
\* player: the outcome a turn takes is the first of the action that matches
\* in this sense, and a turn takes none only if none matches.
C27_RequirementSemantics ==
  [][ (pc = "play" /\ PlayedAction # << >>) =>
        LET outcomes == PlayedAction[1].outcomes IN
        /\ pc' = "mutate" =>
             \E n \in DOMAIN outcomes :
                /\ Top'.outcome = outcomes[n]
                /\ Matches(outcomes[n])
                /\ \A j \in 1..(n - 1) : ~Matches(outcomes[j])
        /\ pc' = "return" => \A n \in DOMAIN outcomes : ~Matches(outcomes[n])
        /\ (\E n \in DOMAIN outcomes : outcomes[n].requirements = << >>) =>
             pc' = "mutate" ]_vars

\* an outcome with two requirements was taken: the player has the knife and
\* has visited B
C27_Witness ==
  /\ pc = "mutate"
  /\ Top.i = 1
  /\ Top.outcome.requirements = << Req("has_item", "knife"), Req("has_visited", "B") >>
  /\ "knife" \in inventory
  /\ "B" \in visited_scene_names

\* the positions of the player_move_to mutators of an outcome
Moves(outcome) ==
  { n \in DOMAIN outcome.mutators : outcome.mutators[n].type = "player_move_to" }

\* the target of the last player_move_to of an outcome that has one
LastMove(outcome) ==
  outcome.mutators[CHOOSE n \in Moves(outcome) : \A k \in Moves(outcome) : k <= n].target

\* C28: when the mutators of an outcome, several player_move_to among them,
\* have been applied, current_scene is the target of the last
\* player_move_to; no arrival turn starts while the mutators run; then one
\* arrival turn starts, in the final scene, if that scene differs from the
\* one held before the first mutator (unless the turns have nested up to
\* the limit: RecursionError), and none if they are the same.
C28_LastMoveDecides ==
  [][ /\ (MutatorsDone /\ Moves(Top.outcome) # { }) =>
           /\ current_scene = LastMove(Top.outcome)
           /\ IF LastMove(Top.outcome) # Top.player_original_scene
              THEN \/ /\ pc' = "play"
                      /\ input_action_key' = ARRIVE
                      /\ current_scene' = LastMove(Top.outcome)
                   \/ /\ pc' = "crashed"
                      /\ Len(stack) >= MaxDepth
              ELSE /\ pc' = "return"
                   /\ Len(stack') = Len(stack) - 1
      /\ (pc = "mutate" /\ Top.i <= Len(Top.outcome.mutators)) => pc' # "play"
      /\ (pc = "play" /\ stack # << >>) => pc' # "play" ]_vars

\* player_move_to(A) and then player_move_to(B) were applied in scene A: the
\* arrival turn of B is about to run
C28_Witness ==
  /\ pc = "play"
  /\ stack # << >>
  /\ Top.outcome.mutators = << Mut("player_move_to", "A"), Mut("player_move_to", "B") >>
  /\ Top.player_original_scene = "A"
  /\ current_scene = "B"
  /\ input_action_key = ARRIVE

\* an arrival turn is about to run in a scene that has no {_arrive} action
ArrivalWithoutArrive ==
  /\ pc = "play"
  /\ stack # << >>
  /\ input_action_key = ARRIVE
  /\ ARRIVE \notin DOMAIN scenes[current_scene].actions

\* C29: the arrival turn after a move into a scene with no {_arrive} action
\* is a turn with no matching action: it resolves the {_no_match} action of
\* the scene if there is one, taking its first outcome that matches, and
\* prints "You cannot do that now." if there is none or none matches;
\* nothing is raised, and the player stays in the new scene while the turns
\* return.
C29_ArrivalWithoutArriveAction ==
  [][ /\ ArrivalWithoutArrive =>
           LET actions == scenes[current_scene].actions IN
           /\ current_scene' = current_scene
           /\ IF NO_MATCH \in DOMAIN actions
                 /\ \E n \in DOMAIN actions[NO_MATCH].outcomes :
                       Matches(actions[NO_MATCH].outcomes[n])
              THEN /\ pc' = "mutate"
                   /\ Top'.action = actions[NO_MATCH]
                   /\ \E n \in DOMAIN actions[NO_MATCH].outcomes :
                         /\ Top'.outcome = actions[NO_MATCH].outcomes[n]
                         /\ Matches(actions[NO_MATCH].outcomes[n])
                         /\ \A j \in 1..(n - 1) : ~Matches(actions[NO_MATCH].outcomes[j])
                   /\ out' = out
              ELSE /\ pc' = "return"
                   /\ out' = Append(out, ShellPrint(<<"You cannot do that now.">>, "left"))
                   /\ stack' = stack
      /\ pc = "return" =>
           /\ pc' \in {"return", "loop"}
           /\ current_scene' = current_scene ]_vars

\* the player moved from A into a scene B that has a _no_match action and no
\* _arrive action: the outcome of _no_match was printed, and the player is
\* in B
C29_Witness ==
  /\ pc = "return"
  /\ Len(stack) = 1
  /\ Top.player_original_scene = "A"
  /\ current_scene = "B"
  /\ DOMAIN scenes["B"].actions = { NO_MATCH }
  /\ out # << >>
  /\ out[Len(out)] = ShellPrint(<<"lost">>, "left")

\* C30: game_end does not cut the outcome short: with in_progress false,
\* the mutators that are left are applied in order, each with its effect (one
\* that raises KeyError apart), and the text of the outcome is printed; what
\* game_end stops is the loop, which reads no further command.
C30_GameEndDoesNotCutShort ==
  [][ /\ (pc = "mutate" /\ ~in_progress /\ Top.i <= Len(Top.outcome.mutators)) =>
           \/ /\ pc' = "mutate"
              /\ Effect(Top.outcome.mutators[Top.i])
              /\ Top'.i = Top.i + 1
              /\ Top'.outcome = Top.outcome
           \/ /\ pc' = "crashed"
              /\ Top.outcome.mutators[Top.i].type \in
                   {"remove_item", "remove_state", "player_move_to", "player_arrive"}
      /\ (MutatorsDone /\ ~in_progress) =>
           /\ out' # out
           /\ out'[Len(out')] = ShellPrint(Top.outcome.text, "left")
      /\ (pc = "loop" /\ ~in_progress) =>
           /\ pc' = "done"
           /\ reads' = reads ]_vars

\* game_end and then add_state(lit) were applied and the text was printed:
\* the player is lit, and the game has ended
C30_Witness ==
  /\ pc = "return"
  /\ stack = << >>
  /\ ~in_progress
  /\ \E o \in FileOutcomes(content) :
        /\ o.mutators = << Mut("game_end", None), Mut("add_state", "lit") >>
        /\ out # << >>
        /\ out[Len(out)] = ShellPrint(o.text, "left")
  /\ states = {"lit"}

(***************************************************************************)
(* Input, failures within an outcome, and invariants of the player.        *)
(***************************************************************************)
\* C31: a command is read once in each round of the loop of start() and
\* nowhere else: a step reads a command only from the loop, with no turn in
\* progress, and reads one; the initial turn and every arrival turn take
\* the key they are given, the command last read staying as it is, so that
\* from an outcome that changes the scene to the return of its arrival turn
\* no command is read.
C31_InputOncePerIteration ==
  [][ /\ reads' # reads =>
           /\ pc = "loop"
           /\ in_progress
           /\ stack = << >>
           /\ reads' = reads + 1
           /\ pc' = "play"
      /\ (pc = "loop" /\ in_progress) => reads' = reads + 1
      /\ pc # "loop" => (reads' = reads /\ text_input' = text_input)
      /\ (pc = "ready" /\ pc' = "play") =>
           input_action_key' = { content.metadata.first_action }
      /\ (pc = "mutate" /\ pc' = "play") => input_action_key' = {<<"_arrive">>}
      /\ stack # << >> => (reads' = reads /\ pc' # "loop") ]_vars

\* the arrival turn of B is running after the one command read so far, and
\* was given the key {_arrive}
C31_Witness ==
  /\ pc = "mutate"
  /\ Len(stack) = 2
  /\ reads = 1
  /\ text_input = GO_NORTH
  /\ input_action_key = {<<"_arrive">>}
  /\ stack[1].player_original_scene = "A"
  /\ current_scene = "B"

\* the mutator m raises KeyError when applied to the game as it is
RaisesKeyError(m) ==
  \/ m.type \in {"player_move_to", "player_arrive"} /\ m.target \notin DOMAIN scenes
  \/ m.type = "remove_item" /\ m.target \notin inventory
  \/ m.type = "remove_state" /\ m.target \notin states

\* C32: there is no rollback: when a mutator of an outcome raises, the
\* player and in_progress stay as the mutators before it left them, the
\* mutators after it are not applied and the text of the outcome is not
\* printed: the step that raises changes neither the game nor the output,
\* nothing happens after it, and what the mutator applied last had
\* established still holds.
C32_NoRollback ==
  /\ [][ /\ (pc = "mutate" /\ Top.i <= Len(Top.outcome.mutators)
               /\ RaisesKeyError(Top.outcome.mutators[Top.i])) =>
              /\ pc' = "crashed"
              /\ UNCHANGED <<current_scene, inventory, states, visited_scene_names,
                             in_progress, out, stack>>
         /\ pc # "crashed" ]_vars
  /\ []((pc = "crashed" /\ stack # << >> /\ Top.i > 1
           /\ Top.i <= Len(Top.outcome.mutators)) =>
          Established(Top.outcome.mutators[Top.i - 1]))

\* player_move_to(B) was applied in scene A and then remove_item(knife)
\* raised: the player is in B, and the text was not printed
C32_Witness ==
  /\ pc = "crashed"
  /\ stack # << >>
  /\ Top.i = 2
  /\ Top.outcome.mutators = << Mut("player_move_to", "B"), Mut("remove_item", "knife") >>
  /\ Top.player_original_scene = "A"
  /\ current_scene = "B"
  /\ \A n \in DOMAIN out : out[n] # ShellPrint(Top.outcome.text, "left")

\* the keys of the scenes of the adventure file
SceneKeys == { content.scenes[n].key : n \in DOMAIN content.scenes }

\* C33: visited_scene_names only grows, and only by player_arrive: no step
\* takes a key out of it; a step that adds one is the application of a
\* player_arrive(t) and adds the key of scenes[t]; player_move_to leaves it
\* as it is, so that has_visited of a scene the player moved into is false
\* until a player_arrive for it is applied; and, the player having begun
\* with keys of scenes only, every key in it is the key of a scene.
C33_VisitedGrowsByArriveOnly ==
  /\ [][ /\ visited_scene_names \subseteq visited_scene_names'
         /\ visited_scene_names' # visited_scene_names =>
              /\ Applying("player_arrive")
              /\ Top.outcome.mutators[Top.i].target \in DOMAIN scenes
              /\ visited_scene_names' =
                   visited_scene_names
                     \cup { scenes[Top.outcome.mutators[Top.i].target].key }
         /\ Applying("player_move_to") => visited_scene_names' = visited_scene_names
       ]_vars
  /\ [](visited_scene_names \subseteq SceneKeys)

\* the player has gone from A into B, not visited before, and the arrival
\* turn of B is about to apply player_arrive(B): B is not marked yet
C33_Witness ==
  /\ pc = "mutate"
  /\ Len(stack) = 2
  /\ stack[1].player_original_scene = "A"
  /\ current_scene = "B"
  /\ Top.i = 1
  /\ Top.outcome.mutators = << Mut("player_arrive", "B") >>
  /\ visited_scene_names = { }
  /\ ~check_func(Req("has_visited", "B"), Player)

\* start() has put the player in the first scene
FirstSceneSet ==
  \/ pc \in {"play", "mutate", "return", "loop", "done"}
  \/ pc = "crashed" /\ content.metadata.first_scene \in SceneKeys

\* C34: once start() has set the first scene, current_scene is a scene of
\* the game in every state, whatever turns and mutators have run, those
\* that raised included: it is a key of game.scenes, that of a scene of the
\* file, and never the None the player was constructed with.
C34_CurrentSceneIsAScene ==
  FirstSceneSet =>
    /\ current_scene \in DOMAIN scenes
    /\ scenes[current_scene].key = current_scene
    /\ current_scene \in SceneKeys
    /\ current_scene # None

\* two commands took the player from A to B and back to A
C34_Witness ==
  /\ pc = "return"
  /\ reads = 2
  /\ Len(stack) = 1
  /\ Top.player_original_scene = "B"
  /\ current_scene = "A"

====
